---- MODULE Spec2Model ----
(***************************************************************************)
(* Model of the io-uring-zcrx crate: the zero-copy interface queue          *)
(* (src/src/lib.rs), its two memory regions (src/src/mmap.rs) and the       *)
(* refill ("recycling") ring shared with the kernel (src/src/rqueue.rs).    *)
(*                                                                         *)
(* The process is the only producer of the ring and the kernel its only    *)
(* consumer.  The ring lives in memory shared with the kernel: `rqes` is    *)
(* that memory in the producer's program order, `kmem` is what the kernel  *)
(* is guaranteed to see of it.  A plain (non-atomic) slot write reaches     *)
(* `kmem` at some later moment (Propagate); a Release store of the tail     *)
(* makes every earlier write visible before the tail itself.               *)
(***************************************************************************)
EXTENDS Integers, Naturals, Sequences, FiniteSets, TLC

\* ---------------------------------------------------------------- bounds

\* The u32 head/tail counters are narrowed to CounterBits bits, so that the
\* wrap past the largest counter value is reached by a short run.
CounterBits == 3

\* Largest ring entry count the kernel's registration hands back.
MaxRingEntries == 2

\* Largest entry count a registration that returns any count hands back.
MaxAnyCount == 3

\* Number of distinct refill entries a caller pushes.
NumEntryVals == 2

\* Longest batch handed to push_multiple.
MaxBatch == 2

\* Most BorrowedBuffers a caller holds at once.
MaxBufs == 1

\* How many bit positions next to each boundary of a 64-bit value (bit 0,
\* bit 32, bit 48, bit 63) the sampled offsets, lengths, tokens and payloads
\* exercise.
SampleSpread == 1

\* Number of page sizes sysconf(_SC_PAGESIZE) is sampled from (4 KiB, 16 KiB, ...).
NumPageSizes == 3

\* The requested entry counts are sampled around the multiples of a page's
\* worth of entries, up to this many pages.
MaxCountPages == 2

\* ------------------------------------------------------------- arithmetic

U32Mod == 2 ^ CounterBits

wrapping_add(a, b) == (a + b) % U32Mod

wrapping_sub(a, b) == (a - b) % U32Mod

RECURSIVE BitAnd(_, _)
BitAnd(a, b) ==
    IF a = 0 \/ b = 0
    THEN 0
    ELSE (a % 2) * (b % 2) + 2 * BitAnd(a \div 2, b \div 2)

is_power_of_two(n) == \E k \in 0 .. CounterBits : n = 2 ^ k

\* ------------------------------------------------- 64-bit values (u64, usize)

\* A u64 or usize value is the set of the positions of its one bits, so that
\* every value keeps its full width; usize is 64 bits wide.
U64Bits == 64

BitPositions == 0 .. (U64Bits - 1)

\* The bit set of a small natural number.
FromNat(n) == {i \in 0 .. 30 : (n \div (2 ^ i)) % 2 = 1}

u64_and(a, b) == a \cap b

u64_or(a, b) == a \cup b

u64_not(a) == BitPositions \ a

u64_shl(a, k) == {i + k : i \in a} \cap BitPositions

\* Addition wrapping at 2^64: a carry enters bit i when some lower bit j
\* generates one (both operands have it) and every bit between j and i
\* propagates it (either operand has it).
carry_into(a, b, i) ==
    \E j \in a \cap b :
        /\ j < i
        /\ \A k \in (j + 1) .. (i - 1) : k \in a \/ k \in b

u64_add(a, b) ==
    {i \in BitPositions : ((i \in a) # (i \in b)) # carry_into(a, b, i)}

u64_sub(a, b) == u64_add(u64_add(a, u64_not(b)), FromNat(1))

\* Shift-and-add multiplication, wrapping at 2^64.
RECURSIVE u64_mul(_, _)
u64_mul(a, b) ==
    IF b = {}
    THEN {}
    ELSE LET i == CHOOSE m \in b : \A n \in b : m <= n
         IN  u64_add(u64_shl(a, i), u64_mul(a, b \ {i}))

\* a < b as unsigned numbers.
u64_lt(a, b) ==
    \E i \in b \ a : \A j \in (i + 1) .. (U64Bits - 1) : (j \in a) <=> (j \in b)

\* `x as u32`: the low 32 bits of x.
U32Bits == 32

as_u32(x) == {i \in x : i < U32Bits}

\* ------------------------------------------------------------------ state

VARIABLES
    ifq,            \* the IoUringZcrxIfq value: "none", "live", "released", "dropped", "panicked", "failed"
    areaMapped,     \* the data area's mapping exists
    regionMapped,   \* the metadata region's mapping exists
    areaUnmaps,     \* munmap calls made on the data area
    regionUnmaps,   \* munmap calls made on the metadata region
    ring_entries,   \* Inner.ring_entries
    ring_mask,      \* Inner.ring_mask
    shHead,         \* the shared head counter (written by the kernel)
    shTail,         \* the shared tail counter (written by the process)
    rqes,           \* the shared entry array, in the producer's program order
    kmem,           \* the shared entry array, as visible to the kernel
    cur,            \* the RefillQueue cursor: "none" or "live"
    curHead,        \* RefillQueue.head
    curTail,        \* RefillQueue.tail
    nbufs,          \* BorrowedBuffers the caller holds
    area,           \* IoUringZcrxIfq.area: the data area's Mmap {addr, len}
    region,         \* IoUringZcrxIfq.region: the metadata region's Mmap {addr, len}
    area_token,     \* IoUringZcrxIfq.area_token
    bufs,           \* the BorrowedBuffers the caller holds, oldest first
    ret,            \* the value returned by the last get_buf, into_refill_entry or ZcrxCqe::from
    regCall,        \* history: the arguments of register and the sizes it computed and passed on
    pend,           \* history: the entries pushed for the positions shHead .. curTail-1
    curCount,       \* history: len() at the cursor's creation plus its successful pushes
    lastOp          \* history: the last call the process made, and what it returned

vars == <<ifq, areaMapped, regionMapped, areaUnmaps, regionUnmaps, ring_entries,
          ring_mask, shHead, shTail, rqes, kmem, cur, curHead, curTail, nbufs,
          area, region, area_token, bufs, ret, regCall, pend, curCount, lastOp>>

mapVars == <<areaMapped, regionMapped, areaUnmaps, regionUnmaps>>

innerVars == <<ring_entries, ring_mask>>

curVars == <<cur, curHead, curTail, curCount>>

ifqVars == <<area, region, area_token, regCall>>

bufVars == <<bufs, ret>>

\* An Mmap that does not exist (yet, or any more), and the absence of a
\* returned value.
NoMmap == [addr |-> {}, len |-> {}]

NoRet == [kind |-> "none"]

NoCall == [area_size |-> {}, refill_ring_entries |-> {}, page_size |-> {},
           region_size |-> {}, hs_area_len |-> {}, hs_region_len |-> {},
           rq_entries |-> 0]

\* The zeroed entry of a fresh anonymous mapping, and the entries callers push.
ZeroEntry == 0

Entries == 1 .. NumEntryVals

\* A call of the process and what it returned.
Op(o, r) == [op |-> o, res |-> r]

Init ==
    /\ ifq = "none"
    /\ areaMapped = FALSE
    /\ regionMapped = FALSE
    /\ areaUnmaps = 0
    /\ regionUnmaps = 0
    /\ ring_entries = 0
    /\ ring_mask = 0
    /\ shHead = 0
    /\ shTail = 0
    /\ rqes = <<>>
    /\ kmem = <<>>
    /\ cur = "none"
    /\ curHead = 0
    /\ curTail = 0
    /\ nbufs = 0
    /\ area = NoMmap
    /\ region = NoMmap
    /\ area_token = {}
    /\ bufs = <<>>
    /\ ret = NoRet
    /\ regCall = NoCall
    /\ pend = <<>>
    /\ curCount = 0
    /\ lastOp = Op("init", "ok")


\* ------------------------------------------------------- memory regions

\* Mmap::new_anon on the data area; `ok` is whether mmap succeeded.
AreaNewAnon(ok) ==
    /\ areaMapped' = ok
    /\ areaUnmaps' = areaUnmaps

\* The data area's Mmap forgotten instead of dropped: the mapping stays.
AreaMmapForget ==
    /\ areaMapped' = TRUE
    /\ areaUnmaps' = areaUnmaps

\* Drop for Mmap, on the data area: one munmap.
AreaMmapDrop ==
    /\ areaMapped' = FALSE
    /\ areaUnmaps' = areaUnmaps + 1

\* Drop for Mmap, on the metadata region: one munmap.
RegionMmapDrop ==
    /\ regionMapped' = FALSE
    /\ regionUnmaps' = regionUnmaps + 1

\* A ManuallyDrop<Mmap> going out of scope: its destructor does not run.
ManuallyDropScopeExit == UNCHANGED mapVars

\* ----------------------------------------------------------- Inner::new

\* debug_assert!(ring_entries.is_power_of_two()) is compiled only into builds
\* with debug assertions (`dbg`); without them the subtraction wraps.
InnerNew(rq, dbg) ==
    IF dbg /\ ~is_power_of_two(rq)
    THEN [panic |-> TRUE, ring_entries |-> 0, ring_mask |-> 0]
    ELSE [panic |-> FALSE, ring_entries |-> rq, ring_mask |-> wrapping_sub(rq, 1)]

\* The entry counts the registration handshake returns: the kernel's own
\* (it rounds the request up to a power of two), and any count at all.
Pow2Counts == {n \in 1 .. MaxRingEntries : is_power_of_two(n)}

AnyCounts == 0 .. MaxAnyCount

\* ------------------------------------------------ IoUringZcrxIfq::register

\* sizeof(rqueue::Entry): a transparent wrapper of io_uring_zcrx_rqe
\* {off: u64, len: u32, __pad: u32}.
EntrySize == 16

\* The metadata region's length as register computes it from the page size
\* and the requested entry count.
refill_ring_size(page_size, refill_ring_entries) ==
    u64_add(page_size, u64_mul(FromNat(EntrySize), refill_ring_entries))

page_mask(page_size) == u64_not(u64_sub(page_size, FromNat(1)))

\* The same computation without the `+ page_size - 1`: it rounds down.
region_size_rounding_down(page_size, refill_ring_entries) ==
    u64_and(refill_ring_size(page_size, refill_ring_entries), page_mask(page_size))

region_size(page_size, refill_ring_entries) ==
    u64_and(u64_sub(u64_add(refill_ring_size(page_size, refill_ring_entries), page_size),
                    FromNat(1)),
            page_mask(page_size))

\* One call of register.  areaOk, pageOk, regionOk, hsOk: whether the data
\* area's mmap, sysconf(_SC_PAGESIZE), the region's mmap and the kernel's
\* registration succeed; rq: the entry count the kernel returns; dbg: whether
\* the build has debug assertions; e: the call's arguments (area_size,
\* refill_ring_entries) and what the system answers (page_size, the two
\* mapping addresses, rq_area_token).
RegisterWith(areaOk, pageOk, regionOk, hsOk, rq, dbg, e) ==
    LET inner == InnerNew(rq, dbg)
        size  == region_size(e.page_size, e.refill_ring_entries)
        args  == [NoCall EXCEPT !.area_size = e.area_size,
                                !.refill_ring_entries = e.refill_ring_entries]
        sized == [args EXCEPT !.page_size = e.page_size, !.region_size = size]
        shook == [sized EXCEPT !.hs_area_len = e.area_size, !.hs_region_len = size]
        done  == [shook EXCEPT !.rq_entries = rq]
    IN
    /\ ifq = "none"
    /\ UNCHANGED <<shHead, shTail, curVars, nbufs, bufVars, pend>>
    /\ CASE ~areaOk ->
              /\ AreaNewAnon(FALSE)
              /\ UNCHANGED <<regionMapped, regionUnmaps, innerVars, rqes, kmem>>
              /\ UNCHANGED <<area, region, area_token>>
              /\ regCall' = args
              /\ ifq' = "failed"
              /\ lastOp' = Op("register", "err_mmap_area")
         [] areaOk /\ (~pageOk \/ ~regionOk) ->
              \* `?` returns early: the local `area` is dropped
              /\ AreaMmapDrop
              /\ UNCHANGED <<regionMapped, regionUnmaps, innerVars, rqes, kmem>>
              /\ UNCHANGED <<area, region, area_token>>
              /\ regCall' = IF ~pageOk THEN args ELSE sized
              /\ ifq' = "failed"
              /\ lastOp' = Op("register", IF ~pageOk THEN "err_page_size" ELSE "err_mmap_region")
         [] areaOk /\ pageOk /\ regionOk /\ ~hsOk ->
              \* `?` returns early: the locals `region` and `area` are dropped
              /\ RegionMmapDrop
              /\ AreaMmapDrop
              /\ UNCHANGED <<innerVars, rqes, kmem>>
              /\ UNCHANGED <<area, region, area_token>>
              /\ regCall' = shook
              /\ ifq' = "failed"
              /\ lastOp' = Op("register", "err_handshake")
         [] areaOk /\ pageOk /\ regionOk /\ hsOk /\ inner.panic ->
              \* Inner::new panics after both regions were moved into
              \* ManuallyDrop: the unwind unmaps neither
              /\ areaMapped' = TRUE
              /\ regionMapped' = TRUE
              /\ UNCHANGED <<areaUnmaps, regionUnmaps, innerVars, rqes, kmem>>
              /\ UNCHANGED <<area, region, area_token>>
              /\ regCall' = done
              /\ ifq' = "panicked"
              /\ lastOp' = Op("register", "panic")
         [] OTHER ->
              /\ areaMapped' = TRUE
              /\ regionMapped' = TRUE
              /\ UNCHANGED <<areaUnmaps, regionUnmaps>>
              /\ ring_entries' = inner.ring_entries
              /\ ring_mask' = inner.ring_mask
              /\ rqes' = [i \in 0 .. (rq - 1) |-> ZeroEntry]
              /\ kmem' = [i \in 0 .. (rq - 1) |-> ZeroEntry]
              /\ area' = [addr |-> e.area_addr, len |-> e.area_size]
              /\ region' = [addr |-> e.region_addr, len |-> size]
              /\ area_token' = e.rq_area_token
              /\ regCall' = done
              /\ ifq' = "live"
              /\ lastOp' = Op("register", "ok")

\* The arguments and system answers of the registrations a ring-only run
\* makes: 4 KiB pages, one requested entry, a 64 KiB data area, area id 0.
RingEnv ==
    [area_size |-> {16}, refill_ring_entries |-> FromNat(1), page_size |-> {12},
     area_addr |-> {32}, region_addr |-> {33}, rq_area_token |-> {}]

Register(counts, envs) ==
    \E areaOk, pageOk, regionOk, hsOk, dbg \in BOOLEAN : \E rq \in counts : \E e \in envs :
        RegisterWith(areaOk, pageOk, regionOk, hsOk, rq, dbg, e)

\* --------------------------------------------------------- RefillQueue

\* capacity() answering with the index mask.
capacity_from_mask == ring_mask

capacity == ring_entries

\* len() by a subtraction that saturates at zero instead of wrapping.
len_saturating == IF curTail >= curHead THEN curTail - curHead ELSE 0

len == wrapping_sub(curTail, curHead)

is_empty == len = 0

\* is_full() that takes the ring for full one entry too late.
is_full_late == len > capacity

is_full == len = capacity

\* The slot a position of the ring is stored in.
slot(pos) == BitAnd(pos, ring_mask)

\* borrow_shared with both cached indices loaded from the shared head.
borrow_shared_tail_from_head ==
    /\ cur' = "live"
    /\ curHead' = shHead
    /\ curTail' = shHead
    /\ curCount' = Len(pend)

\* borrow_shared with both cached indices loaded from the shared tail.
borrow_shared_head_from_tail ==
    /\ cur' = "live"
    /\ curHead' = shTail
    /\ curTail' = shTail
    /\ curCount' = Len(pend)

\* Inner::borrow_shared: head by an Acquire load, tail by a plain load.
borrow_shared ==
    /\ cur' = "live"
    /\ curHead' = shHead
    /\ curTail' = shTail
    /\ curCount' = Len(pend)

\* IoUringZcrxIfq::refill takes &mut self: nothing borrows the queue.
Refill ==
    /\ ifq = "live"
    /\ cur = "none"
    /\ nbufs = 0
    /\ borrow_shared
    /\ lastOp' = Op("refill", "ok")
    /\ UNCHANGED <<ifq, mapVars, innerVars, shHead, shTail, rqes, kmem, nbufs, pend>>
    /\ UNCHANGED <<ifqVars, bufVars>>

\* IoUringZcrxIfq::refill_shared takes &self; that no other cursor exists is
\* the caller's obligation.
RefillShared ==
    /\ ifq = "live"
    /\ cur = "none"
    /\ borrow_shared
    /\ lastOp' = Op("refill_shared", "ok")
    /\ UNCHANGED <<ifq, mapVars, innerVars, shHead, shTail, rqes, kmem, nbufs, pend>>
    /\ UNCHANGED <<ifqVars, bufVars>>

\* push_unchecked on the pair q = [rqes, tail]: a plain write of the slot,
\* then the local tail advances.
push_unchecked(q, entry) ==
    [rqes |-> [q.rqes EXCEPT ![BitAnd(q.tail, ring_mask)] = entry],
     tail |-> wrapping_add(q.tail, 1)]

\* The loop of push_multiple running over the entries last to first.
RECURSIVE push_each_reversed(_, _)
push_each_reversed(q, entries) ==
    IF entries = <<>>
    THEN q
    ELSE push_each_reversed(push_unchecked(q, entries[Len(entries)]),
                            SubSeq(entries, 1, Len(entries) - 1))

RECURSIVE push_each(_, _)
push_each(q, entries) ==
    IF entries = <<>>
    THEN q
    ELSE push_each(push_unchecked(q, Head(entries)), Tail(entries))

\* push that stores the tail to shared memory on every entry.
PushPublishing(entry) ==
    /\ cur # "none"
    /\ IF ~is_full
       THEN LET q == push_unchecked([rqes |-> rqes, tail |-> curTail], entry) IN
            /\ rqes' = q.rqes
            /\ curTail' = q.tail
            /\ kmem' = q.rqes
            /\ shTail' = q.tail
            /\ pend' = Append(pend, entry)
            /\ curCount' = curCount + 1
            /\ lastOp' = Op("push", "ok")
       ELSE /\ UNCHANGED <<rqes, curTail, kmem, shTail, pend, curCount>>
            /\ lastOp' = Op("push", "PushError")
    /\ UNCHANGED <<ifq, mapVars, innerVars, shHead, cur, curHead, nbufs>>
    /\ UNCHANGED <<ifqVars, bufVars>>

Push(entry) ==
    /\ cur # "none"
    /\ IF ~is_full
       THEN LET q == push_unchecked([rqes |-> rqes, tail |-> curTail], entry) IN
            /\ rqes' = q.rqes
            /\ curTail' = q.tail
            /\ pend' = Append(pend, entry)
            /\ curCount' = curCount + 1
            /\ lastOp' = Op("push", "ok")
       ELSE /\ UNCHANGED <<rqes, curTail, pend, curCount>>
            /\ lastOp' = Op("push", "PushError")
    /\ UNCHANGED <<ifq, mapVars, innerVars, shHead, shTail, kmem, cur, curHead, nbufs>>
    /\ UNCHANGED <<ifqVars, bufVars>>

\* push_multiple as a loop of push: the entries that fit are written before
\* the error is returned.
PushMultipleLoop(entries) ==
    LET room == capacity - len
        fit == IF Len(entries) <= room THEN entries ELSE SubSeq(entries, 1, room)
        q == push_each([rqes |-> rqes, tail |-> curTail], fit)
    IN  /\ cur # "none"
        /\ rqes' = q.rqes
        /\ curTail' = q.tail
        /\ pend' = pend \o fit
        /\ curCount' = curCount + Len(fit)
        /\ lastOp' = Op("push_multiple", IF Len(entries) <= room THEN "ok" ELSE "PushError")
        /\ UNCHANGED <<ifq, mapVars, innerVars, shHead, shTail, kmem, cur, curHead, nbufs>>
    /\ UNCHANGED <<ifqVars, bufVars>>

PushMultiple(entries) ==
    /\ cur # "none"
    /\ IF capacity - len < Len(entries)
       THEN /\ UNCHANGED <<rqes, curTail, pend, curCount>>
            /\ lastOp' = Op("push_multiple", "PushError")
       ELSE LET q == push_each([rqes |-> rqes, tail |-> curTail], entries) IN
            /\ rqes' = q.rqes
            /\ curTail' = q.tail
            /\ pend' = pend \o entries
            /\ curCount' = curCount + Len(entries)
            /\ lastOp' = Op("push_multiple", "ok")
    /\ UNCHANGED <<ifq, mapVars, innerVars, shHead, shTail, kmem, cur, curHead, nbufs>>
    /\ UNCHANGED <<ifqVars, bufVars>>

\* A Relaxed store of the local tail: earlier writes need not be visible yet.
tail_store_relaxed ==
    /\ kmem' = kmem
    /\ shTail' = curTail

\* A Release store of the local tail: every earlier write of the producer is
\* visible to the kernel before the new tail is.
tail_store_release ==
    /\ kmem' = rqes
    /\ shTail' = curTail

\* sync: the tail is published; the value of the Acquire load of the head is
\* not assigned to anything.
Sync ==
    /\ cur # "none"
    /\ tail_store_release
    /\ lastOp' = Op("sync", "ok")
    /\ UNCHANGED <<ifq, mapVars, innerVars, shHead, rqes, curVars, nbufs, pend>>
    /\ UNCHANGED <<ifqVars, bufVars>>

\* A cursor without a Drop of its own: the tail is not stored.
DropCursorNoPublish ==
    /\ cur # "none"
    /\ cur' = "none"
    /\ curHead' = 0
    /\ curTail' = 0
    /\ curCount' = 0
    /\ lastOp' = Op("drop_cursor", "ok")
    /\ UNCHANGED <<ifq, mapVars, innerVars, shHead, shTail, rqes, kmem, nbufs, pend>>
    /\ UNCHANGED <<ifqVars, bufVars>>

\* Drop for RefillQueue.
DropCursor ==
    /\ cur # "none"
    /\ tail_store_release
    /\ cur' = "none"
    /\ curHead' = 0
    /\ curTail' = 0
    /\ curCount' = 0
    /\ lastOp' = Op("drop_cursor", "ok")
    /\ UNCHANGED <<ifq, mapVars, innerVars, shHead, rqes, nbufs, pend>>
    /\ UNCHANGED <<ifqVars, bufVars>>

\* ------------------------------------------------------ kernel and memory

\* A plain slot write becomes visible to the kernel.
Propagate ==
    /\ ifq = "live"
    /\ \E s \in DOMAIN rqes :
        /\ kmem[s] # rqes[s]
        /\ kmem' = [kmem EXCEPT ![s] = rqes[s]]
    /\ UNCHANGED <<ifq, mapVars, innerVars, shHead, shTail, rqes, curVars, nbufs, pend, lastOp>>
    /\ UNCHANGED <<ifqVars, bufVars>>

\* The kernel takes the entry at the shared head and advances the head.
KernelConsume ==
    /\ ifq = "live"
    /\ shHead # shTail
    /\ shHead' = wrapping_add(shHead, 1)
    /\ pend' = Tail(pend)
    /\ UNCHANGED <<ifq, mapVars, innerVars, shTail, rqes, kmem, curVars, nbufs, lastOp>>
    /\ UNCHANGED <<ifqVars, bufVars>>

\* ---------------------------------------------------- buffers and teardown

\* The split one bit too low.
AreaShiftOneLess == 48 - 1

\* The bit from which the area id is encoded into offsets.
IORING_ZCRX_AREA_SHIFT == 48

\* The mask without its outer `!`: it selects the low bits.
AreaMaskNotNegated ==
    u64_sub(u64_shl(FromNat(1), IORING_ZCRX_AREA_SHIFT), FromNat(1))

IORING_ZCRX_AREA_MASK ==
    u64_not(u64_sub(u64_shl(FromNat(1), IORING_ZCRX_AREA_SHIFT), FromNat(1)))

\* ZcrxCqe::buffer_offset and ZcrxCqe::area_token.
ZcrxCqe_buffer_offset(c) == u64_and(c.off, u64_not(IORING_ZCRX_AREA_MASK))

ZcrxCqe_area_token(c) == u64_and(c.off, IORING_ZCRX_AREA_MASK)

\* rqueue::Entry::buffer_offset and rqueue::Entry::area_token.
Entry_buffer_offset(en) == u64_and(en.off, u64_not(IORING_ZCRX_AREA_MASK))

Entry_area_token(en) == u64_and(en.off, IORING_ZCRX_AREA_MASK)

\* ptr.offset(off as isize): the cast keeps the 64 bits of `off`, and adding a
\* two's-complement displacement to an address is addition modulo 2^64.
ptr_offset(ptr, off) == u64_add(ptr, off)

\* The BorrowedBuffer get_buf builds; `arg_offset` is history: the offset the
\* caller passed.
BorrowedBuffer(offset, length) ==
    [kind |-> "buffer", data |-> ptr_offset(area.addr, offset), len |-> length,
     off |-> u64_or(offset, area_token), arg_offset |-> offset]

\* A get_buf that validates the range against the data area and returns None
\* for a range that leaves it.
GetBufChecked(offset, length) ==
    /\ ifq = "live"
    /\ nbufs < MaxBufs
    /\ IF u64_lt(area.len, u64_add(offset, length)) \/ u64_lt(u64_add(offset, length), offset)
       THEN /\ UNCHANGED <<nbufs, bufs>>
            /\ ret' = NoRet
            /\ lastOp' = Op("get_buf", "None")
       ELSE /\ nbufs' = nbufs + 1
            /\ bufs' = Append(bufs, BorrowedBuffer(offset, length))
            /\ ret' = BorrowedBuffer(offset, length)
            /\ lastOp' = Op("get_buf", "Some")
    /\ UNCHANGED <<ifq, mapVars, innerVars, shHead, shTail, rqes, kmem, curVars, pend>>
    /\ UNCHANGED ifqVars

\* IoUringZcrxIfq::get_buf takes &self: buffers and a cursor from
\* refill_shared() may be live.
GetBuf(offset, length) ==
    /\ ifq = "live"
    /\ nbufs < MaxBufs
    /\ nbufs' = nbufs + 1
    /\ bufs' = Append(bufs, BorrowedBuffer(offset, length))
    /\ ret' = BorrowedBuffer(offset, length)
    /\ lastOp' = Op("get_buf", "Some")
    /\ UNCHANGED <<ifq, mapVars, innerVars, shHead, shTail, rqes, kmem, curVars, pend>>
    /\ UNCHANGED ifqVars

\* The Entry into_refill_entry builds from buffer b; `from` is history: the
\* buffer that was consumed.
RefillEntry(b) ==
    [kind |-> "entry", off |-> b.off, len |-> as_u32(b.len), pad |-> {}, from |-> b]

\* BorrowedBuffer::into_refill_entry consumes the buffer.
IntoRefillEntry ==
    /\ nbufs > 0
    /\ \E i \in 1 .. Len(bufs) :
        /\ bufs' = SubSeq(bufs, 1, i - 1) \o SubSeq(bufs, i + 1, Len(bufs))
        /\ ret' = RefillEntry(bufs[i])
    /\ nbufs' = nbufs - 1
    /\ lastOp' = Op("into_refill_entry", "ok")
    /\ UNCHANGED <<ifq, mapVars, innerVars, shHead, shTail, rqes, kmem, curVars, pend>>
    /\ UNCHANGED ifqVars

\* ZcrxCqe::from(cqueue::Entry32): the 16 bytes of big_cqe are read as an
\* io_uring_zcrx_cqe, whose `off` is the first 8 of them.
ZcrxCqeFrom(big_cqe) ==
    /\ ret' = [kind |-> "cqe", off |-> big_cqe[1]]
    /\ lastOp' = Op("cqe_from", "ok")
    /\ UNCHANGED <<ifq, mapVars, innerVars, shHead, shTail, rqes, kmem, curVars, nbufs, pend>>
    /\ UNCHANGED <<ifqVars, bufs>>

\* A release that takes &mut self: the queue stays usable afterwards.
ReleaseByRef ==
    /\ ifq = "live"
    /\ cur = "none"
    /\ nbufs = 0
    /\ AreaMmapDrop
    /\ RegionMmapDrop
    /\ ifq' = "live"
    /\ lastOp' = Op("release", "ok")
    /\ UNCHANGED <<innerVars, shHead, shTail, rqes, kmem, curVars, nbufs, pend>>
    /\ UNCHANGED <<ifqVars, bufVars>>

\* IoUringZcrxIfq::drop(mut self): consumes the queue, so nothing borrows it.
Release ==
    /\ ifq = "live"
    /\ cur = "none"
    /\ nbufs = 0
    /\ AreaMmapDrop
    /\ RegionMmapDrop
    /\ ifq' = "released"
    /\ lastOp' = Op("release", "ok")
    /\ UNCHANGED <<innerVars, shHead, shTail, rqes, kmem, curVars, nbufs, pend>>
    /\ UNCHANGED <<ifqVars, bufVars>>

\* The queue goes out of scope: IoUringZcrxIfq has no Drop of its own and its
\* two regions are ManuallyDrop fields.
ScopeExit ==
    /\ ifq = "live"
    /\ cur = "none"
    /\ nbufs = 0
    /\ ManuallyDropScopeExit
    /\ ifq' = "dropped"
    /\ lastOp' = Op("scope_exit", "ok")
    /\ UNCHANGED <<innerVars, shHead, shTail, rqes, kmem, curVars, nbufs, pend>>
    /\ UNCHANGED <<ifqVars, bufVars>>

\* --------------------------------------------------------- specifications

Batches == UNION {[1 .. n -> Entries] : n \in 0 .. MaxBatch}

\* The refill ring: one cursor at a time against the kernel consumer.
RingNext ==
    \/ Refill
    \/ RefillShared
    \/ \E e \in Entries : Push(e)
    \/ \E es \in Batches : PushMultiple(es)
    \/ Sync
    \/ DropCursor
    \/ Propagate
    \/ KernelConsume

Next == Register(Pow2Counts, {RingEnv}) \/ RingNext \/ Release \/ ScopeExit

\* The program against the kernel, which returns power-of-two entry counts.
Spec == Init /\ [][Next]_vars

\* The program against a registration that may return any entry count.
NextAnyCount ==
    \/ Register(AnyCounts, {RingEnv})
    \/ Refill
    \/ RefillShared
    \/ \E e \in Entries : Push(e)
    \/ Sync
    \/ DropCursor
    \/ KernelConsume

SpecAnyCount == Init /\ [][NextAnyCount]_vars

\* The queue's lifetime: registration, the borrows taken from the queue
\* (buffers and cursors) and the two ways the queue ceases to exist.
NextLife ==
    \/ Register(Pow2Counts, {RingEnv})
    \/ Refill
    \/ RefillShared
    \/ \E e \in Entries : Push(e)
    \/ DropCursor
    \/ KernelConsume
    \/ GetBuf(FromNat(0), FromNat(1))
    \/ IntoRefillEntry
    \/ Release
    \/ ScopeExit

SpecLife == Init /\ [][NextLife]_vars

\* The bit positions just below and just above the split of an encoded
\* offset, with the lowest and the highest bits of the word.
LowBits ==
    (0 .. (SampleSpread - 1))
        \cup ((IORING_ZCRX_AREA_SHIFT - SampleSpread) .. (IORING_ZCRX_AREA_SHIFT - 1))

HighBits ==
    (IORING_ZCRX_AREA_SHIFT .. (IORING_ZCRX_AREA_SHIFT + SampleSpread - 1))
        \cup ((U64Bits - SampleSpread) .. (U64Bits - 1))

AtMostOneBit(S) == {{}} \cup {{b} : b \in S}

\* Offsets passed to get_buf: inside and outside the low 48 bits, and the
\* largest 48-bit offset.
OffsetSamples ==
    AtMostOneBit(LowBits \cup HighBits) \cup {0 .. (IORING_ZCRX_AREA_SHIFT - 1)}

\* Lengths passed to get_buf: around the 32-bit boundary, and u32::MAX.
LenSamples ==
    AtMostOneBit((0 .. (SampleSpread - 1))
                     \cup ((U32Bits - SampleSpread) .. (U32Bits + SampleSpread - 1)))
        \cup {0 .. (U32Bits - 1)}

\* Area tokens the handshake returns: area ids shifted to bit 48 as the
\* kernel builds them, and, the token being an unchecked u64, one with a
\* bit below 48.
TokenSamples == AtMostOneBit(HighBits) \cup {HighBits} \cup {{0}}

\* Completion payloads: every sampled offset under every sampled token, the
\* payload 0x0001_0000_0000_0400, and all ones.
PayloadSamples ==
    {u64_or(o, t) : o \in OffsetSamples, t \in TokenSamples}
        \cup {{10, IORING_ZCRX_AREA_SHIFT}, BitPositions}

\* The 16 bytes of a big completion record: the payload and a second word.
BigCqes ==
    {<<p, {}>> : p \in PayloadSamples} \cup {<<{10, IORING_ZCRX_AREA_SHIFT}, BitPositions>>}

\* The (offset, length) pairs passed to get_buf: every sampled offset with a
\* one-byte length, and every sampled length at offset 0.
BufArgs ==
    {<<o, FromNat(1)>> : o \in OffsetSamples} \cup {<<FromNat(0), l>> : l \in LenSamples}

\* Registrations of an 8 GiB data area under each sampled token.
DataEnvs ==
    {[RingEnv EXCEPT !.rq_area_token = t, !.area_size = {33}] : t \in TokenSamples}

\* Buffers: get_buf and into_refill_entry under every sampled token.
NextData ==
    \/ Register(Pow2Counts, DataEnvs)
    \/ \E a \in BufArgs : GetBuf(a[1], a[2])
    \/ IntoRefillEntry

SpecData == Init /\ [][NextData]_vars

\* The encoding on both of its paths: an offset goes out in a refill entry
\* (get_buf, into_refill_entry), and comes back in the completion the kernel
\* posts for that offset of the registered area.
NextCodec ==
    \/ Register(Pow2Counts, DataEnvs)
    \/ \E o \in OffsetSamples : GetBuf(o, FromNat(1))
    \/ IntoRefillEntry
    \/ \E o \in OffsetSamples : ZcrxCqeFrom(<<u64_or(o, area_token), {}>>)

SpecCodec == Init /\ [][NextCodec]_vars

\* Completion decoding over every sampled payload.
NextCqe ==
    \/ Register(Pow2Counts, {RingEnv})
    \/ \E c \in BigCqes : ZcrxCqeFrom(c)

SpecCqe == Init /\ [][NextCqe]_vars

\* Page sizes (4 KiB, 16 KiB, ...) and, for a page of 2^p bytes, requested
\* entry counts around the multiples of the entries one page holds, with
\* u32::MAX.
PageBits == {12 + 2 * i : i \in 0 .. (NumPageSizes - 1)}

CountSamples(p) ==
    {FromNat(k * (2 ^ p \div EntrySize) + d) :
        k \in 0 .. MaxCountPages, d \in {0, 1}}
        \cup {FromNat(k * (2 ^ p \div EntrySize) - 1) : k \in 1 .. MaxCountPages}
        \cup {0 .. (U32Bits - 1)}

SizeEnvs ==
    UNION {{[RingEnv EXCEPT !.page_size = {p}, !.refill_ring_entries = c] :
               c \in CountSamples(p)} : p \in PageBits}

\* Registration under every sampled page size and requested entry count.
NextSize == Register(Pow2Counts, SizeEnvs)

SpecSize == Init /\ [][NextSize]_vars

\* ------------------------------------------------------------- properties

\* The number of positions the kernel may read: shared head up to shared tail.
published == wrapping_sub(shTail, shHead)

\* C1: immediately after sync() the cursor's cached head equals the shared
\* head (so a full ring the kernel has consumed from accepts pushes again).
C1_SyncRefreshesHead == [][Sync => curHead' = shHead']_vars

\* C2: every position from the shared head up to the shared tail has, in the
\* memory the kernel sees, its slot holding the entry pushed for that position.
C2_PublishedSlotsWritten ==
    ifq = "live" =>
        /\ published <= Len(pend)
        /\ \A i \in 0 .. (published - 1) :
            kmem[slot(wrapping_add(shHead, i))] = pend[i + 1]

\* C2 happens: a published range that runs across the counter's wrap, with a
\* further entry pushed but not yet published nor visible to the kernel.
C2_Witness ==
    /\ ifq = "live"
    /\ ring_entries = 2
    /\ published = 1
    /\ shTail < shHead
    /\ Len(pend) = 2
    /\ kmem # rqes

\* C3: push on a cursor with len() = capacity() returns the full-queue error
\* and leaves the local tail, the cached head, the entry array and the shared
\* indices as they were.
C3_PushOnFullChangesNothing ==
    [][\A e \in Entries :
        (Push(e) /\ len = capacity) =>
            /\ lastOp' = Op("push", "PushError")
            /\ UNCHANGED <<curTail, curHead, rqes, kmem, shTail, shHead, pend>>]_vars

\* C3 happens: a push has just been refused on a full ring of two entries.
C3_Witness ==
    /\ lastOp = Op("push", "PushError")
    /\ cur = "live"
    /\ ring_entries = 2
    /\ len = capacity

\* C4: push_multiple with less room than the batch returns the full-queue
\* error, writes no slot and keeps the local tail; with room for the whole
\* batch it succeeds and the local tail advances by the batch size.
C4_PushMultipleAllOrNothing ==
    [][\A es \in Batches :
        PushMultiple(es) =>
            IF capacity - len < Len(es)
            THEN /\ lastOp' = Op("push_multiple", "PushError")
                 /\ UNCHANGED <<rqes, kmem, curTail, curHead, pend>>
            ELSE /\ lastOp' = Op("push_multiple", "ok")
                 /\ curTail' = wrapping_add(curTail, Len(es))
                 /\ len' = len + Len(es)]_vars

\* C4 happens: a batch has just been refused on a ring that had room for a
\* part of it.
C4_Witness ==
    /\ lastOp = Op("push_multiple", "PushError")
    /\ cur = "live"
    /\ len > 0
    /\ len < capacity

\* C5: len() is the cursor's occupancy at creation plus the number of its
\* successful pushes, whatever the counters' values (tail - head modulo the
\* counter width); is_full() is len() = capacity() and is_empty() is len() = 0.
C5_LenCountsPushes ==
    cur = "live" =>
        /\ len = curCount
        /\ len <= capacity
        /\ is_full <=> (curCount = ring_entries)
        /\ is_empty <=> (curCount = 0)

\* C5 happens: a push has just filled a ring whose tail has wrapped past the
\* largest counter value while its head has not.
C5_Witness ==
    /\ lastOp = Op("push", "ok")
    /\ cur = "live"
    /\ curTail < curHead
    /\ curCount = 2
    /\ is_full

\* C6: when a cursor is dropped the shared tail becomes the cursor's local
\* tail, so every entry pushed through it is in the range the kernel reads.
C6_DropPublishesTail ==
    [][DropCursor =>
        /\ shTail' = curTail
        /\ kmem' = rqes
        /\ wrapping_sub(shTail', shHead') = Len(pend')]_vars

\* C6 happens: a cursor has just been dropped and two pushed entries are
\* published.
C6_Witness ==
    /\ lastOp = Op("drop_cursor", "ok")
    /\ cur = "none"
    /\ published = 2
    /\ Len(pend) = 2

\* C7: push and push_multiple leave the shared tail and the shared head
\* alone; the shared tail changes only in sync() and when a cursor is dropped.
C7_PushNeverPublishes ==
    /\ [][((\E e \in Entries : Push(e)) \/ (\E es \in Batches : PushMultiple(es)))
            => UNCHANGED <<shTail, shHead, kmem>>]_vars
    /\ [][shTail' # shTail => (Sync \/ DropCursor)]_vars

\* C7 happens: a push has just succeeded and its entry is not in the range
\* the kernel reads.
C7_Witness ==
    /\ lastOp = Op("push", "ok")
    /\ cur = "live"
    /\ curTail # shTail
    /\ Len(pend) > published

\* C8: no ring geometry exists whose entry count is not a power of two.
C8_GeometryIsPowerOfTwo == ifq = "live" => is_power_of_two(ring_entries)

\* C9: once the queue has ceased to exist, by release or by going out of
\* scope, both of its memory regions are unmapped.
C9_RegionsUnmappedAtTeardown ==
    ifq \in {"released", "dropped"} => (~areaMapped /\ ~regionMapped)

\* C10: no region is unmapped twice; a release unmaps each region once and
\* leaves a queue on which no get_buf, refill, refill_shared or release can
\* be called.
C10_ReleaseOnceThenNothing ==
    /\ areaUnmaps <= 1
    /\ regionUnmaps <= 1
    /\ ifq = "released" =>
        /\ areaUnmaps = 1 /\ ~areaMapped
        /\ regionUnmaps = 1 /\ ~regionMapped
        /\ cur = "none" /\ nbufs = 0
        /\ ~ENABLED (GetBuf(FromNat(0), FromNat(1)) \/ Refill \/ RefillShared \/ Release)

\* C10 happens: the queue was registered, used and released.
C10_Witness ==
    /\ ifq = "released"
    /\ lastOp = Op("release", "ok")
    /\ areaUnmaps = 1
    /\ regionUnmaps = 1

\* C11: a failed register keeps nothing.  When the call returns an error, no
\* interface queue exists, neither region is mapped, and every region that
\* was mapped earlier in the call has been unmapped exactly once: none when
\* the data area's own mmap failed, the data area when the page-size query or
\* the metadata region's mmap failed, both when the handshake was rejected.
C11_FailedRegisterKeepsNothing ==
    lastOp.op = "register" /\ lastOp.res \notin {"ok", "panic"} =>
        /\ ifq = "failed"
        /\ ~areaMapped /\ ~regionMapped
        /\ area = NoMmap /\ region = NoMmap
        /\ ring_entries = 0 /\ rqes = <<>>
        /\ lastOp.res = "err_mmap_area" => areaUnmaps = 0 /\ regionUnmaps = 0
        /\ lastOp.res \in {"err_page_size", "err_mmap_region"} =>
               areaUnmaps = 1 /\ regionUnmaps = 0
        /\ lastOp.res = "err_handshake" => areaUnmaps = 1 /\ regionUnmaps = 1

C11_Witness ==
    /\ ifq = "failed"
    /\ lastOp = Op("register", "err_handshake")
    /\ areaUnmaps = 1 /\ regionUnmaps = 1
    /\ ~areaMapped /\ ~regionMapped

\* An offset below 2^48, and a token with no bit below bit 48.
Below48(o) == u64_lt(o, {48})

TokenInHighBits(t) == \A i \in t : i >= 48

\* Decoding the refill entry made from get_buf(o, _) under token t, or a
\* completion token whose payload is o | t, gives back o and t.
RoundTrips(o, t) ==
    /\ ret.kind = "entry" /\ ret.from.arg_offset = o /\ area_token = t =>
           Entry_buffer_offset(ret) = o /\ Entry_area_token(ret) = t
    /\ ret.kind = "cqe" /\ ret.off = u64_or(o, t) =>
           ZcrxCqe_buffer_offset(ret) = o /\ ZcrxCqe_area_token(ret) = t

\* C12 as stated: for ANY area token T and any offset O < 2^48, decoding O | T
\* (as a refill entry or as a completion token) yields exactly O and T.
C12_RoundTripAnyToken ==
    \A o \in OffsetSamples : \A t \in TokenSamples :
        Below48(o) => RoundTrips(o, t)

\* C12 amended: for any area token T that has no bit below bit 48 and any
\* offset O < 2^48, decoding O | T (as a refill entry or as a completion
\* token) yields exactly O and T.
C12_RoundTripHighToken ==
    \A o \in OffsetSamples : \A t \in TokenSamples :
        Below48(o) /\ TokenInHighBits(t) => RoundTrips(o, t)

C12_Witness ==
    /\ ret.kind = "entry"
    /\ area_token = HighBits
    /\ ret.from.arg_offset = 0 .. (IORING_ZCRX_AREA_SHIFT - 1)
    /\ ret.off = BitPositions \ ((IORING_ZCRX_AREA_SHIFT + SampleSpread) .. (U64Bits - SampleSpread - 1))
    /\ Entry_buffer_offset(ret) = 0 .. (IORING_ZCRX_AREA_SHIFT - 1)
    /\ Entry_area_token(ret) = HighBits

\* The low 48 bits of a payload as a number: what is left of it modulo 2^48.
Low48(p) == {i \in p : i < 48}

\* C13: decoding a completion record splits its 64-bit payload P at bit 48,
\* for every P: buffer_offset() is P's low 48 bits, area_token() is P with
\* its low 48 bits cleared, the two share no bit and together are P; the
\* payload 0x0001_0000_0000_0400 gives 0x400 and 0x0001_0000_0000_0000; and
\* the decoding step changes nothing but the value it returns.
C13_CqeSplitsAtBit48 ==
    [][\A c \in BigCqes : ZcrxCqeFrom(c) =>
          /\ ret'.kind = "cqe" /\ ret'.off = c[1]
          /\ ZcrxCqe_buffer_offset(ret') = Low48(c[1])
          /\ ZcrxCqe_area_token(ret') = c[1] \ Low48(c[1])
          /\ ZcrxCqe_buffer_offset(ret') \cap ZcrxCqe_area_token(ret') = {}
          /\ ZcrxCqe_buffer_offset(ret') \cup ZcrxCqe_area_token(ret') = c[1]
          /\ (c[1] = {10, 48} =>
                 ZcrxCqe_buffer_offset(ret') = {10} /\ ZcrxCqe_area_token(ret') = {48})
          /\ UNCHANGED <<ifq, mapVars, innerVars, shHead, shTail, rqes, kmem, curVars,
                         nbufs, ifqVars, bufs, pend>>]_vars

C13_Witness ==
    /\ ret.kind = "cqe"
    /\ ret.off = {10, 48}
    /\ ZcrxCqe_buffer_offset(ret) = FromNat(1024)
    /\ ZcrxCqe_area_token(ret) = {48}
    /\ ifq = "live"

\* C14: get_buf(offset, length) is total and unvalidated.  Every call, for
\* every offset and length, also with a range that leaves the data area,
\* returns Some(buffer), never None: the buffer starts at
\* the data area's base + offset, has the given length, and carries
\* offset | area_token; the queue, its regions and the ring are unchanged.
C14_GetBufTotalUnvalidated ==
    [][\A a \in BufArgs : GetBuf(a[1], a[2]) =>
          /\ lastOp' = Op("get_buf", "Some")
          /\ ret'.kind = "buffer"
          /\ ret'.data = u64_add(area.addr, a[1])
          /\ ret'.len = a[2]
          /\ ret'.off = a[1] \cup area_token
          /\ bufs' = Append(bufs, ret')
          /\ UNCHANGED <<ifq, mapVars, innerVars, shHead, shTail, rqes, kmem,
                         curVars, ifqVars, pend>>]_vars

\* A buffer returned for an offset far outside the 8 GiB data area.
C14_Witness ==
    /\ lastOp = Op("get_buf", "Some")
    /\ ret.kind = "buffer"
    /\ u64_lt(area.len, ret.arg_offset)
    /\ ret.arg_offset = {47}
    /\ ret.data = {32, 47}
    /\ area_token = {63}
    /\ ret.off = {47, 63}

\* C15: a cursor vended by refill() or refill_shared() starts with its cached
\* head equal to the shared head and its cached tail equal to the shared tail
\* at the moment of creation; its len() is then the number of entries that
\* earlier cursors published and the kernel has not consumed, each still in
\* its slot; and while a cursor lives its tail is the position after the last
\* entry pushed by any cursor, so no position is skipped or used twice.
C15_CursorStartsAtSharedIndices ==
    [][/\ Refill \/ RefillShared =>
              /\ cur' = "live"
              /\ curHead' = shHead /\ curTail' = shTail
              /\ wrapping_sub(shTail, shHead) = Len(pend)
              /\ wrapping_sub(curTail', curHead') = Len(pend)
              /\ \A i \in 1 .. Len(pend) :
                     rqes[BitAnd(wrapping_add(shHead, i - 1), ring_mask)] = pend[i]
       /\ cur' = "live" => wrapping_sub(curTail', shHead') = Len(pend')]_vars

\* A later cursor created over a ring that holds one published, unconsumed
\* entry after the kernel consumed an earlier one.
C15_Witness ==
    /\ lastOp.op \in {"refill", "refill_shared"}
    /\ cur = "live"
    /\ shHead = 1 /\ shTail = 2
    /\ curHead = 1 /\ curTail = 2
    /\ Len(pend) = 1

\* What a successful push of entry e makes of the entry array r and the local
\* tail t: the slot at t & mask holds e, the tail is t + 1 (mod 2^32).
AfterPush(r, t, e) ==
    [rqes |-> [s \in DOMAIN r |-> IF s = BitAnd(t, ring_mask) THEN e ELSE r[s]],
     tail |-> (t + 1) % U32Mod]

RECURSIVE AfterPushes(_, _, _)
AfterPushes(r, t, es) ==
    IF es = <<>>
    THEN [rqes |-> r, tail |-> t]
    ELSE LET one == AfterPush(r, t, Head(es)) IN AfterPushes(one.rqes, one.tail, Tail(es))

\* C16: a successful push_multiple(e_1 .. e_k) on a cursor with local tail t
\* has the effect of k successive successful pushes: none of the k pushes
\* would find the ring full, the slot at (t + i) & mask holds e_(i+1) for
\* 0 <= i < k, the local tail is t + k (mod 2^32), every other slot, the
\* cached head and the shared indices are as before; and a successful push
\* is one such step.
C16_PushMultipleIsPushes ==
    [][/\ \A es \in Batches : lastOp'.res = "ok" /\ PushMultiple(es) =>
              /\ \A i \in 0 .. (Len(es) - 1) :
                     /\ (curTail + i - curHead) % U32Mod # ring_entries
                     /\ rqes'[BitAnd((curTail + i) % U32Mod, ring_mask)] = es[i + 1]
              /\ curTail' = (curTail + Len(es)) % U32Mod
              /\ \A s \in DOMAIN rqes :
                     (\A i \in 0 .. (Len(es) - 1) :
                          s # BitAnd((curTail + i) % U32Mod, ring_mask)) => rqes'[s] = rqes[s]
              /\ rqes' = AfterPushes(rqes, curTail, es).rqes
              /\ curTail' = AfterPushes(rqes, curTail, es).tail
              /\ UNCHANGED <<curHead, shHead, shTail, kmem, cur>>
       /\ \A e \in Entries : lastOp'.res = "ok" /\ Push(e) =>
              /\ rqes' = AfterPush(rqes, curTail, e).rqes
              /\ curTail' = AfterPush(rqes, curTail, e).tail
              /\ UNCHANGED <<curHead, shHead, shTail, kmem, cur>>]_vars

\* A batch of two different entries pushed from tail 1 into a ring of two:
\* the first lands in slot 1, the second wraps to slot 0.
C16_Witness ==
    /\ lastOp = Op("push_multiple", "ok")
    /\ ring_entries = 2
    /\ curHead = 1 /\ curTail = 3
    /\ pend = <<1, 2>>
    /\ rqes[1] = 1 /\ rqes[0] = 2

\* The slots of the published, unconsumed positions shHead .. shTail-1.
PublishedSlots ==
    {BitAnd((shHead + i) % U32Mod, ring_mask) :
        i \in 0 .. (((shTail - shHead) % U32Mod) - 1)}

\* C17: the producer never overwrites an unconsumed entry.  While a cursor
\* lives its cached head is never ahead of the shared head (the shared head
\* lies between the cached head and the tail), and no slot written by a
\* successful push or push_multiple is the slot of a position p with
\* shared head <= p < shared tail: those slots keep their entries.
C17_NoOverwriteOfUnconsumed ==
    [][/\ cur = "live" =>
              ((shHead - curHead) % U32Mod) + ((curTail - shHead) % U32Mod)
                  = ((curTail - curHead) % U32Mod)
       /\ \A e \in Entries : lastOp'.res = "ok" /\ Push(e) =>
              /\ BitAnd(curTail, ring_mask) \notin PublishedSlots
              /\ \A s \in PublishedSlots : rqes'[s] = rqes[s]
       /\ \A es \in Batches : lastOp'.res = "ok" /\ PushMultiple(es) =>
              /\ \A i \in 0 .. (Len(es) - 1) :
                     BitAnd((curTail + i) % U32Mod, ring_mask) \notin PublishedSlots
              /\ \A s \in PublishedSlots : rqes'[s] = rqes[s]]_vars

\* A push that fills a ring of two while the other slot holds a published
\* entry the kernel has not consumed.
C17_Witness ==
    /\ lastOp = Op("push", "ok")
    /\ ring_entries = 2
    /\ (shTail - shHead) % U32Mod = 1
    /\ len = 2
    /\ rqes[BitAnd(shHead, ring_mask)] = pend[1]

\* C18: ring bounds.  With one cursor at a time and a power-of-two entry
\* count, capacity() is the entry count the registration returned and never
\* changes while the queue lives, 0 <= len() <= capacity() while a cursor
\* lives, and so the subtraction capacity() - len() that push_multiple
\* starts with is never negative on any cursor it can be called on.
C18_RingBounds ==
    [][/\ ifq = "live" =>
              /\ capacity = regCall.rq_entries
              /\ is_power_of_two(capacity)
              /\ ifq' = "live" => capacity' = capacity
       /\ cur = "live" =>
              /\ 0 <= len /\ len <= capacity
              /\ capacity - len >= 0 /\ capacity - len <= regCall.rq_entries]_vars

\* A full ring of two whose counters have wrapped, refusing a batch.
C18_Witness ==
    /\ cur = "live"
    /\ regCall.rq_entries = 2 /\ capacity = 2
    /\ curTail < curHead
    /\ len = capacity
    /\ lastOp = Op("push_multiple", "PushError")

\* pageSize + 16 * entryCount for the last register call, the product taken
\* as a shift by four bits.
RegionNeed == u64_add(regCall.page_size, {i + 4 : i \in regCall.refill_ring_entries})

\* C19: register sizes the metadata region as pageSize + entryCount * 16
\* rounded up to a page boundary.  For every requested entry count and every
\* power-of-two page size, the length it asks mmap for is a multiple of
\* pageSize, is at least pageSize + 16 * entryCount and exceeds it by less
\* than pageSize (the smallest such multiple), and this same length is the
\* region length passed to the registration handshake.
C19_RegionSizeRoundsUpToPage ==
    /\ lastOp.op = "register" /\ lastOp.res \in {"err_mmap_region", "err_handshake", "ok"} =>
           /\ Cardinality(regCall.page_size) = 1
           /\ \A p \in regCall.page_size : \A i \in regCall.region_size : i >= p
           /\ ~u64_lt(regCall.region_size, RegionNeed)
           /\ u64_lt(u64_sub(regCall.region_size, RegionNeed), regCall.page_size)
    /\ lastOp.op = "register" /\ lastOp.res \in {"err_handshake", "ok"} =>
           regCall.hs_region_len = regCall.region_size
    /\ ifq = "live" => region.len = regCall.region_size

\* 4 KiB pages and 257 entries: 4096 + 4112 = 8208 bytes are needed and
\* 12288 = 2^13 + 2^12 are mapped and passed on.
C19_Witness ==
    /\ ifq = "live"
    /\ regCall.page_size = {12}
    /\ regCall.refill_ring_entries = FromNat(257)
    /\ RegionNeed = FromNat(8208)
    /\ region.len = {12, 13}
    /\ regCall.hs_region_len = FromNat(12288)

\* C20: converting a Borrowed Buffer into a Recycling Ring Entry preserves
\* the buffer's identity: the entry's offset field is offset | area_token,
\* its length field is the buffer's length, whatever length the buffer has
\* (the length itself, not a truncation of it), and its padding is zero.
C20_EntryKeepsBufferIdentity ==
    ret.kind = "entry" =>
        /\ ret.off = ret.from.arg_offset \cup area_token
        /\ ret.len = ret.from.len
        /\ ret.pad = {}

====
